---- MODULE Spec2Model ----
(***************************************************************************)
(* Model of components/rsptx/grading_helpers/core.py: grade_submission,    *)
(* score_one_answer and compute_total_score, for one user in one course    *)
(* and one assignment.                                                     *)
(*                                                                         *)
(* Scores are held in tenths of a point (fixed point), the partial-credit  *)
(* fraction submission.percent in tenths; Python's None is NoneVal.        *)
(* A row id is its position in the table; id 0 stands for "no row".        *)
(***************************************************************************)
EXTENDS Integers, Sequences, FiniteSets, TLC

VARIABLES
    policy,   \* per question, the ScoringSpecification is_assigned resolves
    qgrades,  \* the QuestionGrade table
    grades,   \* the Grade table
    answers,  \* the answer log fetch_answers reads: <<question, event>>
    calls,    \* per caller, the frame of its grade_submission call
    last      \* what the most recent finished call decided, wrote and returned

vars == <<policy, qgrades, grades, answers, calls, last>>

\* ------------------------------------------------------------------ bounds
MaxRows == 3

\* ------------------------------------------------------- program constants
Scale == 10
NoneVal == -1

Questions == {1, 2}
Events == {"mChoice", "fillb"}
\* The event tags of the submissions of a run with one kind of exercise.
OneEvent == {"mChoice"}
Percents == {4}
MaxScores == {10}
Procs == {1, 2}

Vote2 == <<"v", "o", "t", "e", "2">>
Vote1 == <<"v", "o", "t", "e", "1">>
Acts == {Vote1, Vote2}

Autograded == "autograded"

WhichToGrade == {"first_answer", "last_answer", "best_answer", "all_answer"}
HowToScore == {"pct_correct", "all_or_nothing", "interact", "peer",
               "peer_chat", "manual"}

\* What is_assigned can resolve for a question. `assigned` is false for a
\* question that is not (or no longer) open in the assignment, whatever the
\* other fields hold.
Policies ==
    [assigned : BOOLEAN, which_to_grade : WhichToGrade,
     how_to_score : HowToScore, max_score : MaxScores]

Unassigned ==
    [assigned |-> FALSE, which_to_grade |-> "first_answer",
     how_to_score |-> "manual", max_score |-> 0]

\* The policies drawn for the questions after the first.
OtherPolicies ==
    [assigned : {TRUE}, which_to_grade : {"last_answer"},
     how_to_score : {"pct_correct"}, max_score : MaxScores]

\* ----------------------------------------------------------------- helpers
\* Python's `needle in hay` on strings.
Contains(needle, hay) ==
    \E i \in 1..(Len(hay) - Len(needle) + 1) :
        SubSeq(hay, i, i + Len(needle) - 1) = needle

RECURSIVE SumSeq(_)
SumSeq(s) == IF s = <<>> THEN 0 ELSE Head(s) + SumSeq(Tail(s))

SeqHasNone(s) == \E i \in 1..Len(s) : s[i] = NoneVal

\* -------------------------------------------------- persistence operations
is_assigned(pol, q) ==
    [assigned |-> pol[q].assigned, which_to_grade |-> pol[q].which_to_grade,
     how_to_score |-> pol[q].how_to_score, max_score |-> pol[q].max_score,
     score |-> NoneVal, username |-> NoneVal]

fetch_answers(ans, q, event) == {a \in ans : a = <<q, event>>}

\* The first row stored for the key, 0 when there is none.
fetch_question_grade(qg, q) ==
    IF \E i \in 1..Len(qg) : qg[i].q = q
    THEN CHOOSE i \in 1..Len(qg) :
            /\ qg[i].q = q
            /\ \A j \in 1..(i - 1) : qg[j].q # q
    ELSE 0

create_question_grade_entry(qg, q, score) ==
    Append(qg, [q |-> q, score |-> score, comment |-> Autograded])

update_question_grade_entry(qg, q, score, id) ==
    [qg EXCEPT ![id].score = score]

fetch_assignment_scores(qg) == [i \in 1..Len(qg) |-> qg[i].score]

fetch_grade(gr) == IF Len(gr) > 0 THEN 1 ELSE 0

upsert_grade(gr, id, newGrade) ==
    IF id = 0 THEN Append(gr, newGrade) ELSE [gr EXCEPT ![id] = newGrade]

\* Variant: pct_correct gives partial credit even to a correct submission.
score_one_answer_IgnoresCorrect(scoreSpec, correct, percent, chat) ==
    IF scoreSpec.how_to_score = "pct_correct"
    THEN percent * scoreSpec.max_score
    ELSE IF scoreSpec.how_to_score = "all_or_nothing"
    THEN IF correct THEN scoreSpec.max_score * Scale ELSE 0
    ELSE IF scoreSpec.how_to_score = "interact"
    THEN scoreSpec.max_score * Scale
    ELSE IF scoreSpec.how_to_score = "peer"
    THEN scoreSpec.max_score * Scale
    ELSE IF scoreSpec.how_to_score = "peer_chat"
    THEN IF chat THEN scoreSpec.max_score * Scale ELSE NoneVal
    ELSE 0

\* ------------------------------------------------------------ Answer Scorer
\* score_one_answer; `chat` is what did_send_messages answers. The peer_chat
\* branch without messages falls off the end of the function: Python's None.
score_one_answer(scoreSpec, correct, percent, chat) ==
    IF scoreSpec.how_to_score = "pct_correct"
    THEN IF correct THEN scoreSpec.max_score * Scale
                    ELSE percent * scoreSpec.max_score
    ELSE IF scoreSpec.how_to_score = "all_or_nothing"
    THEN IF correct THEN scoreSpec.max_score * Scale ELSE 0
    ELSE IF scoreSpec.how_to_score = "interact"
    THEN scoreSpec.max_score * Scale
    ELSE IF scoreSpec.how_to_score = "peer"
    THEN scoreSpec.max_score * Scale
    ELSE IF scoreSpec.how_to_score = "peer_chat"
    THEN IF chat THEN scoreSpec.max_score * Scale ELSE NoneVal
    ELSE 0

\* --------------------------------------------------------- one call's frame
\* The local state of one grade_submission call: the submission, the
\* ScoringSpecification, the locals and the position in the function.
NoGrade == [score |-> NoneVal, manual_total |-> FALSE]

Idle ==
    [pc |-> "idle", q |-> 0, event |-> "", act |-> <<>>, correct |-> FALSE,
     percent |-> 0, chat |-> FALSE,
     scoreSpec |-> is_assigned([x \in {0} |-> Unassigned], 0),
     computed |-> NoneVal, update_total |-> FALSE, answer |-> 0, res |-> <<>>, total |-> 0,
     grade_id |-> 0, grade |-> NoGrade,
     ret |-> "none", creates |-> 0, updates |-> 0, upserts |-> 0]

\* The submissions (LogItemIncoming) with an event tag among `events`.
Submissions(events) ==
    [q : Questions, event : events, act : Acts, correct : BOOLEAN,
     percent : Percents]

Begin(sub, chat) ==
    [Idle EXCEPT !.pc = "is_assigned", !.q = sub.q, !.event = sub.event,
                 !.act = sub.act, !.correct = sub.correct,
                 !.percent = sub.percent, !.chat = chat]

Finished(c) == c.pc \in {"done", "raised"}

\* `return scoreSpec` (line 136) and the bare `return` (line 45).
ReturnSpec(c) == [c EXCEPT !.pc = "done", !.ret = "scoreSpec"]
ReturnNone(c) == [c EXCEPT !.pc = "done", !.ret = "None"]
Raise(c) == [c EXCEPT !.pc = "raised", !.ret = "TypeError"]

\* --------------------------------------------------------- Submission Grader
\* One step of grade_submission: the code from one await to the next.
\* Yields the tables and the frame after the step.
Out(qg, gr, c) == [qgrades |-> qg, grades |-> gr, call |-> c]


\* Variant: the `if scoreSpec.assigned` test is missing.
StepIsAssigned_NoAssignedTest(pol, qg, gr, c) ==
    LET scoreSpec == is_assigned(pol, c.q)
        c1 == [c EXCEPT !.scoreSpec = scoreSpec] IN
    IF scoreSpec.which_to_grade = "first_answer"
    THEN Out(qg, gr, [c1 EXCEPT !.pc = "fetch_answers"])
    ELSE IF scoreSpec.which_to_grade \in {"last_answer", "best_answer"}
    THEN Out(qg, gr, [c1 EXCEPT !.pc = "score"])
    ELSE IF scoreSpec.which_to_grade = "all_answer"
    THEN IF Contains(Vote2, c.act)
         THEN Out(qg, gr, [c1 EXCEPT !.pc = "score", !.scoreSpec.username = 1])
         ELSE Out(qg, gr, ReturnSpec(c1))
    ELSE Out(qg, gr, ReturnSpec(c1))

\* Variant: all_answer scores every submission, whatever its action tag.
StepIsAssigned_NoVote2Test(pol, qg, gr, c) ==
    LET scoreSpec == is_assigned(pol, c.q)
        c1 == [c EXCEPT !.scoreSpec = scoreSpec] IN
    IF ~scoreSpec.assigned THEN Out(qg, gr, ReturnSpec(c1))
    ELSE IF scoreSpec.which_to_grade = "first_answer"
    THEN Out(qg, gr, [c1 EXCEPT !.pc = "fetch_answers"])
    ELSE IF scoreSpec.which_to_grade \in {"last_answer", "best_answer"}
    THEN Out(qg, gr, [c1 EXCEPT !.pc = "score"])
    ELSE IF scoreSpec.which_to_grade = "all_answer"
    THEN Out(qg, gr, [c1 EXCEPT !.pc = "score", !.scoreSpec.username = 1])
    ELSE Out(qg, gr, ReturnSpec(c1))

\* Variant: a vote1 submission under all_answer leaves by a bare `return`.
StepIsAssigned_Vote1ReturnsNone(pol, qg, gr, c) ==
    LET scoreSpec == is_assigned(pol, c.q)
        c1 == [c EXCEPT !.scoreSpec = scoreSpec] IN
    IF ~scoreSpec.assigned THEN Out(qg, gr, ReturnSpec(c1))
    ELSE IF scoreSpec.which_to_grade = "first_answer"
    THEN Out(qg, gr, [c1 EXCEPT !.pc = "fetch_answers"])
    ELSE IF scoreSpec.which_to_grade \in {"last_answer", "best_answer"}
    THEN Out(qg, gr, [c1 EXCEPT !.pc = "score"])
    ELSE IF scoreSpec.which_to_grade = "all_answer"
    THEN IF Contains(Vote2, c.act)
         THEN Out(qg, gr, [c1 EXCEPT !.pc = "score", !.scoreSpec.username = 1])
         ELSE Out(qg, gr, ReturnNone(c1))
    ELSE Out(qg, gr, ReturnSpec(c1))

StepIsAssigned(pol, qg, gr, c) ==
    LET scoreSpec == is_assigned(pol, c.q)
        c1 == [c EXCEPT !.scoreSpec = scoreSpec] IN
    IF ~scoreSpec.assigned THEN Out(qg, gr, ReturnSpec(c1))
    ELSE IF scoreSpec.which_to_grade = "first_answer"
    THEN Out(qg, gr, [c1 EXCEPT !.pc = "fetch_answers"])
    ELSE IF scoreSpec.which_to_grade \in {"last_answer", "best_answer"}
    THEN Out(qg, gr, [c1 EXCEPT !.pc = "score"])
    ELSE IF scoreSpec.which_to_grade = "all_answer"
    THEN IF Contains(Vote2, c.act)
         THEN Out(qg, gr, [c1 EXCEPT !.pc = "score", !.scoreSpec.username = 1])
         ELSE Out(qg, gr, ReturnSpec(c1))
    ELSE Out(qg, gr, ReturnSpec(c1))


\* Variant: the prior answers are fetched but never looked at.
StepFetchAnswers_NeverSkips(ans, qg, gr, c) ==
    Out(qg, gr, [c EXCEPT !.pc = "score"])

StepFetchAnswers(ans, qg, gr, c) ==
    IF Cardinality(fetch_answers(ans, c.q, c.event)) > 0
    THEN Out(qg, gr, ReturnNone(c))
    ELSE Out(qg, gr, [c EXCEPT !.pc = "score"])

StepScore(qg, gr, c) ==
    LET s == score_one_answer(c.scoreSpec, c.correct, c.percent, c.chat)
        c1 == [c EXCEPT !.scoreSpec.score = s, !.computed = s] IN
    IF c.scoreSpec.which_to_grade = "first_answer"
    THEN Out(qg, gr, [c1 EXCEPT !.pc = "create"])
    ELSE Out(qg, gr, [c1 EXCEPT !.pc = "fetch_qg"])

\* fetch_question_grade and the decision taken on the row it returned.

\* Variant: last_answer and all_answer create a row even when one is stored.
StepFetchQuestionGrade_AlwaysCreates(qg, gr, c) ==
    LET id == fetch_question_grade(qg, c.q)
        c1 == [c EXCEPT !.answer = id] IN
    IF c.scoreSpec.which_to_grade = "best_answer"
    THEN IF id # 0
         THEN IF qg[id].score = NoneVal \/ c.scoreSpec.score = NoneVal
              THEN Out(qg, gr, Raise(c1))
              ELSE IF /\ qg[id].score < c.scoreSpec.score
                      /\ qg[id].comment = Autograded
              THEN Out(qg, gr, [c1 EXCEPT !.pc = "update"])
              ELSE Out(qg, gr,
                       ReturnSpec([c1 EXCEPT !.scoreSpec.score = qg[id].score]))
         ELSE Out(qg, gr, [c1 EXCEPT !.pc = "create"])
    ELSE Out(qg, gr, [c1 EXCEPT !.pc = "create"])

\* Variant: best_answer compares the scores only, not the comment.
StepFetchQuestionGrade_NoCommentTest(qg, gr, c) ==
    LET id == fetch_question_grade(qg, c.q)
        c1 == [c EXCEPT !.answer = id] IN
    IF c.scoreSpec.which_to_grade = "best_answer"
    THEN IF id # 0
         THEN IF qg[id].score = NoneVal \/ c.scoreSpec.score = NoneVal
              THEN Out(qg, gr, Raise(c1))
              ELSE IF qg[id].score < c.scoreSpec.score
              THEN Out(qg, gr, [c1 EXCEPT !.pc = "update"])
              ELSE Out(qg, gr,
                       ReturnSpec([c1 EXCEPT !.scoreSpec.score = qg[id].score]))
         ELSE Out(qg, gr, [c1 EXCEPT !.pc = "create"])
    ELSE IF id # 0
         THEN Out(qg, gr, [c1 EXCEPT !.pc = "update"])
         ELSE Out(qg, gr, [c1 EXCEPT !.pc = "create"])

\* Variant: best_answer leaves the computed score in the specification
\* when the stored row is kept.
StepFetchQuestionGrade_NoReset(qg, gr, c) ==
    LET id == fetch_question_grade(qg, c.q)
        c1 == [c EXCEPT !.answer = id] IN
    IF c.scoreSpec.which_to_grade = "best_answer"
    THEN IF id # 0
         THEN IF qg[id].score = NoneVal \/ c.scoreSpec.score = NoneVal
              THEN Out(qg, gr, Raise(c1))
              ELSE IF /\ qg[id].score < c.scoreSpec.score
                      /\ qg[id].comment = Autograded
              THEN Out(qg, gr, [c1 EXCEPT !.pc = "update"])
              ELSE Out(qg, gr, ReturnSpec(c1))
         ELSE Out(qg, gr, [c1 EXCEPT !.pc = "create"])
    ELSE IF id # 0
         THEN Out(qg, gr, [c1 EXCEPT !.pc = "update"])
         ELSE Out(qg, gr, [c1 EXCEPT !.pc = "create"])

StepFetchQuestionGrade(qg, gr, c) ==
    LET id == fetch_question_grade(qg, c.q)
        c1 == [c EXCEPT !.answer = id] IN
    IF c.scoreSpec.which_to_grade = "best_answer"
    THEN IF id # 0
         THEN IF qg[id].score = NoneVal \/ c.scoreSpec.score = NoneVal
              THEN Out(qg, gr, Raise(c1))
              ELSE IF /\ qg[id].score < c.scoreSpec.score
                      /\ qg[id].comment = Autograded
              THEN Out(qg, gr, [c1 EXCEPT !.pc = "update"])
              ELSE Out(qg, gr,
                       ReturnSpec([c1 EXCEPT !.scoreSpec.score = qg[id].score]))
         ELSE Out(qg, gr, [c1 EXCEPT !.pc = "create"])
    ELSE IF id # 0
         THEN Out(qg, gr, [c1 EXCEPT !.pc = "update"])
         ELSE Out(qg, gr, [c1 EXCEPT !.pc = "create"])


\* Variant: the create looks again and writes the row stored for the key.
StepCreate_LooksAgain(qg, gr, c) ==
    LET id == fetch_question_grade(qg, c.q) IN
    Out(IF id # 0
        THEN update_question_grade_entry(qg, c.q, c.scoreSpec.score, id)
        ELSE create_question_grade_entry(qg, c.q, c.scoreSpec.score), gr,
        [c EXCEPT !.pc = "fetch_scores", !.update_total = TRUE,
                  !.creates = @ + 1])

StepCreate(qg, gr, c) ==
    Out(create_question_grade_entry(qg, c.q, c.scoreSpec.score), gr,
        [c EXCEPT !.pc = "fetch_scores", !.update_total = TRUE,
                  !.creates = @ + 1])


\* Variant: the update keeps the stored score when it is the higher one.
StepUpdate_KeepsHigher(qg, gr, c) ==
    LET s == IF qg[c.answer].score > c.scoreSpec.score
             THEN qg[c.answer].score ELSE c.scoreSpec.score IN
    Out(update_question_grade_entry(qg, c.q, s, c.answer), gr,
        [c EXCEPT !.pc = "fetch_scores", !.update_total = TRUE,
                  !.updates = @ + 1])

StepUpdate(qg, gr, c) ==
    Out(update_question_grade_entry(qg, c.q, c.scoreSpec.score, c.answer), gr,
        [c EXCEPT !.pc = "fetch_scores", !.update_total = TRUE,
                  !.updates = @ + 1])

\* ---------------------------------------------------------- Total Aggregator
\* compute_total_score: fetch_assignment_scores and the summing loop.

\* Variant: with no row fetched the function returns before the upsert.
StepFetchScores_SkipsEmpty(qg, gr, c) ==
    LET res == fetch_assignment_scores(qg) IN
    IF res = <<>>
    THEN Out(qg, gr, ReturnSpec([c EXCEPT !.res = res]))
    ELSE IF SeqHasNone(res)
    THEN Out(qg, gr, Raise([c EXCEPT !.res = res]))
    ELSE Out(qg, gr, [c EXCEPT !.pc = "fetch_grade", !.res = res,
                               !.total = SumSeq(res)])

StepFetchScores(qg, gr, c) ==
    LET res == fetch_assignment_scores(qg) IN
    IF SeqHasNone(res)
    THEN Out(qg, gr, Raise([c EXCEPT !.res = res]))
    ELSE Out(qg, gr, [c EXCEPT !.pc = "fetch_grade", !.res = res,
                               !.total = SumSeq(res)])

StepFetchGrade(qg, gr, c) ==
    LET id == fetch_grade(gr) IN
    Out(qg, gr, [c EXCEPT !.pc = "upsert", !.grade_id = id,
                          !.grade = IF id # 0 THEN gr[id] ELSE NoGrade])


\* Variant: the total is computed and upserted a second time.
StepUpsert_Recomputes(qg, gr, c) ==
    LET newGrade == IF c.grade_id # 0
                    THEN [c.grade EXCEPT !.score = c.total]
                    ELSE [score |-> c.total, manual_total |-> FALSE]
        c1 == [c EXCEPT !.upserts = @ + 1] IN
    Out(qg, upsert_grade(gr, c.grade_id, newGrade),
        IF c.upserts = 0 THEN [c1 EXCEPT !.pc = "fetch_scores"]
                         ELSE ReturnSpec(c1))

\* Variant: the total is stored in the specification's score field.
StepUpsert_StoresTotal(qg, gr, c) ==
    LET newGrade == IF c.grade_id # 0
                    THEN [c.grade EXCEPT !.score = c.total]
                    ELSE [score |-> c.total, manual_total |-> FALSE] IN
    Out(qg, upsert_grade(gr, c.grade_id, newGrade),
        ReturnSpec([c EXCEPT !.upserts = @ + 1,
                             !.scoreSpec.score = c.total]))


\* Variant: a Grade whose manual_total is set is left alone.
StepUpsert_KeepsManualTotal(qg, gr, c) ==
    LET newGrade == IF c.grade_id # 0
                    THEN [c.grade EXCEPT !.score = c.total]
                    ELSE [score |-> c.total, manual_total |-> FALSE] IN
    IF c.grade_id # 0 /\ c.grade.manual_total
    THEN Out(qg, gr, ReturnSpec(c))
    ELSE Out(qg, upsert_grade(gr, c.grade_id, newGrade),
             ReturnSpec([c EXCEPT !.upserts = @ + 1]))


\* Variant: the Grade is fetched again at the upsert.
StepUpsert_FetchesAgain(qg, gr, c) ==
    LET id == fetch_grade(gr)
        newGrade == IF id # 0
                    THEN [gr[id] EXCEPT !.score = c.total]
                    ELSE [score |-> c.total, manual_total |-> FALSE] IN
    Out(qg, upsert_grade(gr, id, newGrade),
        ReturnSpec([c EXCEPT !.upserts = @ + 1]))

StepUpsert(qg, gr, c) ==
    LET newGrade == IF c.grade_id # 0
                    THEN [c.grade EXCEPT !.score = c.total]
                    ELSE [score |-> c.total, manual_total |-> FALSE] IN
    Out(qg, upsert_grade(gr, c.grade_id, newGrade),
        ReturnSpec([c EXCEPT !.upserts = @ + 1]))

Step(pol, ans, qg, gr, c) ==
    CASE c.pc = "is_assigned" -> StepIsAssigned(pol, qg, gr, c)
      [] c.pc = "fetch_answers" -> StepFetchAnswers(ans, qg, gr, c)
      [] c.pc = "score" -> StepScore(qg, gr, c)
      [] c.pc = "fetch_qg" -> StepFetchQuestionGrade(qg, gr, c)
      [] c.pc = "create" -> StepCreate(qg, gr, c)
      [] c.pc = "update" -> StepUpdate(qg, gr, c)
      [] c.pc = "fetch_scores" -> StepFetchScores(qg, gr, c)
      [] c.pc = "fetch_grade" -> StepFetchGrade(qg, gr, c)
      [] c.pc = "upsert" -> StepUpsert(qg, gr, c)
      [] OTHER -> Out(qg, gr, c)

\* A whole call with nothing interleaved: the steps run to the return.
RECURSIVE Run(_, _, _, _, _)
Run(pol, ans, qg, gr, c) ==
    IF Finished(c) THEN Out(qg, gr, c)
    ELSE LET o == Step(pol, ans, qg, gr, c) IN
         Run(pol, ans, o.qgrades, o.grades, o.call)

\* What is left of a call once it has finished: the submission's key, the
\* tests it took, the ScoringSpecification as it stands at the return, what
\* was returned and how many writes of each kind were made.
Result(c) ==
    [q |-> c.q, event |-> c.event, vote2 |-> Contains(Vote2, c.act),
     scoreSpec |-> c.scoreSpec, computed |-> c.computed,
     update_total |-> c.update_total, answer |-> c.answer,
     total |-> c.total, ret |-> c.ret,
     creates |-> c.creates, updates |-> c.updates, upserts |-> c.upserts]

\* --------------------------------------------------------------- the system
Init ==
    /\ policy \in [Questions -> Policies]
    /\ \A q \in Questions \ {1} : policy[q] \in OtherPolicies
    /\ qgrades = <<>>
    /\ grades = <<>>
    /\ answers = {}
    /\ calls = [p \in Procs |-> Idle]
    /\ last = Result(Idle)

NoCallInFlight == \A r \in Procs : calls[r].pc = "idle"

\* grade_submission(user, submission), called with no other call in flight.
\* did_send_messages is asked only under peer_chat: `chat` is its answer.
ChatAnswers(q) ==
    IF policy[q].how_to_score = "peer_chat" THEN BOOLEAN ELSE {FALSE}

\* The tables and the frame a call for `sub` ends with when started now.
Outcome(sub, chat) == Run(policy, answers, qgrades, grades, Begin(sub, chat))

GradeSubmission(events) ==
    /\ NoCallInFlight
    /\ \E sub \in Submissions(events) : \E chat \in ChatAnswers(sub.q) :
          LET o == Outcome(sub, chat) IN
          /\ Len(o.qgrades) <= MaxRows
          /\ qgrades' = o.qgrades
          /\ grades' = o.grades
          /\ last' = Result(o.call)
    /\ UNCHANGED <<policy, answers, calls>>

\* The ingestion pipeline records the submission it had graded in the answer
\* log that fetch_answers reads.
LogAnswer ==
    /\ last.q \in Questions
    /\ NoCallInFlight
    /\ <<last.q, last.event>> \notin answers
    /\ answers' = answers \cup {<<last.q, last.event>>}
    /\ UNCHANGED <<policy, qgrades, grades, calls, last>>

\* An instructor reviews a stored QuestionGrade and leaves a comment.
InstructorComment(id) ==
    /\ NoCallInFlight
    /\ qgrades[id].comment = Autograded
    /\ qgrades' = [qgrades EXCEPT ![id].comment = "instructor"]
    /\ UNCHANGED <<policy, grades, answers, calls, last>>

Next ==
    \/ GradeSubmission(OneEvent)
    \/ LogAnswer
    \/ \E id \in 1..Len(qgrades) : InstructorComment(id)

Spec == Init /\ [][Next]_vars

\* ================================================================== claims
\* The calls a claim speaks of: every submission that can arrive in the
\* current state, with every answer did_send_messages can give.
Arrivals ==
    {a \in [sub : Submissions(OneEvent), chat : BOOLEAN] :
        a.chat \in ChatAnswers(a.sub.q)}

Rule(q) == policy[q].which_to_grade
Assigned(q) == policy[q].assigned

\* The ids of the QuestionGrade rows stored for question q.
RowsOf(qg, q) == {i \in 1..Len(qg) : qg[i].q = q}

\* The score score_one_answer gives the arriving submission.
ScoreOf(a) ==
    score_one_answer(is_assigned(policy, a.sub.q), a.sub.correct,
                     a.sub.percent, a.chat)

NoWrites(o) ==
    /\ o.qgrades = qgrades
    /\ o.grades = grades
    /\ o.call.creates = 0
    /\ o.call.updates = 0
    /\ o.call.upserts = 0

Logged(a) == <<a.sub.q, a.sub.event>> \in answers

\* C1: a call for a question that is not assigned makes no QuestionGrade
\* create, no QuestionGrade update and no Grade upsert, and leaves both
\* tables as they were.
C1_UnassignedNoWrites ==
    \A a \in Arrivals :
        ~Assigned(a.sub.q) => NoWrites(Outcome(a.sub, a.chat))

\* A call for an unassigned question has returned while rows are stored.
C1_Witness ==
    /\ last.q \in Questions
    /\ ~last.scoreSpec.assigned
    /\ last.ret = "scoreSpec"
    /\ Len(qgrades) > 0
    /\ Len(grades) > 0

\* C2: under first_answer a submission whose answer is not yet in the answer
\* log creates one QuestionGrade holding its score, and a submission that
\* finds a prior answer in the log is a no-op: no create, no update, no
\* upsert, the stored rows unchanged.
C2_FirstAnswerOnce ==
    \A a \in Arrivals :
        (Assigned(a.sub.q) /\ Rule(a.sub.q) = "first_answer") =>
            LET o == Outcome(a.sub, a.chat) IN
            IF Logged(a)
            THEN NoWrites(o)
            ELSE /\ o.call.creates = 1
                 /\ o.call.updates = 0
                 /\ o.qgrades =
                        Append(qgrades, [q |-> a.sub.q, score |-> ScoreOf(a),
                                         comment |-> Autograded])

\* A second first_answer submission was ignored: the log held the first
\* answer, and the single row stored for the question is the first one's.
C2_Witness ==
    /\ last.q \in Questions
    /\ last.scoreSpec.assigned
    /\ last.scoreSpec.which_to_grade = "first_answer"
    /\ last.ret = "None"
    /\ last.creates = 0
    /\ Cardinality(RowsOf(qgrades, last.q)) = 1

\* C3: under last_answer, after every call exactly one QuestionGrade is
\* stored for the question and its score is the one score_one_answer gives
\* the submission just graded.
C3_LastAnswerOneRow ==
    \A a \in Arrivals :
        (Assigned(a.sub.q) /\ Rule(a.sub.q) = "last_answer") =>
            LET o == Outcome(a.sub, a.chat)
                rows == RowsOf(o.qgrades, a.sub.q) IN
            /\ Cardinality(rows) = 1
            /\ \A i \in rows : o.qgrades[i].score = ScoreOf(a)

\* A later last_answer submission overwrote the stored score in place.
C3_Witness ==
    /\ last.q \in Questions
    /\ last.scoreSpec.assigned
    /\ last.scoreSpec.which_to_grade = "last_answer"
    /\ last.updates = 1
    /\ last.creates = 0
    /\ Cardinality(RowsOf(qgrades, last.q)) = 1
    /\ \A i \in RowsOf(qgrades, last.q) : qgrades[i].score = last.computed

Max(x, y) == IF x < y THEN y ELSE x

\* The row fetch_question_grade returns for q in the current state.
Stored(q) == qgrades[fetch_question_grade(qgrades, q)]

\* C4: under best_answer, while the stored comment is "autograded", the
\* score stored after a call is the larger of the score stored before and
\* the score computed for the submission (the computed one when nothing was
\* stored), in a single row: the maximum so far, never decreasing.
C4_BestAnswerKeepsMax ==
    \A a \in Arrivals :
        (/\ Assigned(a.sub.q)
         /\ Rule(a.sub.q) = "best_answer"
         /\ \A i \in RowsOf(qgrades, a.sub.q) : qgrades[i].comment = Autograded)
        => LET o == Outcome(a.sub, a.chat)
               rows == RowsOf(o.qgrades, a.sub.q) IN
           /\ Cardinality(rows) = 1
           /\ \A i \in rows :
                o.qgrades[i].score =
                    IF RowsOf(qgrades, a.sub.q) = {} THEN ScoreOf(a)
                    ELSE Max(Stored(a.sub.q).score, ScoreOf(a))

\* C5: under best_answer, when the stored QuestionGrade carries a comment
\* other than "autograded", a call writes nothing, whether the new score is
\* higher than, equal to or lower than the stored one.
C5_BestAnswerFrozen ==
    \A a \in Arrivals :
        (/\ Assigned(a.sub.q)
         /\ Rule(a.sub.q) = "best_answer"
         /\ RowsOf(qgrades, a.sub.q) # {}
         /\ Stored(a.sub.q).comment # Autograded)
        => NoWrites(Outcome(a.sub, a.chat))

\* A best_answer call computed a score above the stored one and left the
\* commented row alone.
C5_Witness ==
    /\ last.q \in Questions
    /\ last.scoreSpec.assigned
    /\ last.scoreSpec.which_to_grade = "best_answer"
    /\ last.answer # 0
    /\ qgrades[last.answer].comment # Autograded
    /\ last.computed > qgrades[last.answer].score
    /\ last.updates = 0
    /\ last.upserts = 0
    /\ last.ret = "scoreSpec"

\* C6: under all_answer a submission whose action tag lacks "vote2" writes
\* nothing; one whose tag has it makes exactly one QuestionGrade write: a
\* create when no row is stored for the question, else an update in place
\* of the stored row.
C6_AllAnswerVote2 ==
    \A a \in Arrivals :
        (Assigned(a.sub.q) /\ Rule(a.sub.q) = "all_answer") =>
            LET o == Outcome(a.sub, a.chat)
                id == fetch_question_grade(qgrades, a.sub.q) IN
            IF ~Contains(Vote2, a.sub.act)
            THEN NoWrites(o)
            ELSE /\ o.call.creates + o.call.updates = 1
                 /\ id = 0 =>
                        /\ o.call.creates = 1
                        /\ o.qgrades =
                             Append(qgrades,
                                    [q |-> a.sub.q, score |-> ScoreOf(a),
                                     comment |-> Autograded])
                 /\ id # 0 =>
                        /\ o.call.updates = 1
                        /\ o.qgrades =
                             [qgrades EXCEPT ![id].score = ScoreOf(a)]

\* A vote2 submission updated the row an earlier vote2 had created.
C6_Witness ==
    /\ last.q \in Questions
    /\ last.scoreSpec.assigned
    /\ last.scoreSpec.which_to_grade = "all_answer"
    /\ last.vote2
    /\ last.updates = 1
    /\ last.creates = 0
    /\ Cardinality(RowsOf(qgrades, last.q)) = 1

\* C7: one call makes at most one QuestionGrade create, at most one
\* QuestionGrade update and at most one Grade upsert, under every retention
\* rule and in every stored state.
C7_AtMostOneWriteOfEachKind ==
    \A a \in Arrivals :
        LET o == Outcome(a.sub, a.chat) IN
        /\ o.call.creates \in {0, 1}
        /\ o.call.updates \in {0, 1}
        /\ o.call.upserts \in {0, 1}
        /\ Len(o.qgrades) = Len(qgrades) + o.call.creates
        /\ Len(o.grades) <= Len(grades) + o.call.upserts

\* A call made one update and one upsert while several rows are stored.
C7_Witness ==
    /\ last.q \in Questions
    /\ last.updates = 1
    /\ last.creates = 0
    /\ last.upserts = 1
    /\ Len(qgrades) > 1

\* C8 as stated: a call that flagged the recompute returns a specification
\* whose score is the total just persisted in the Grade row.
C8_ReturnedScoreIsTotal ==
    \A a \in Arrivals :
        LET o == Outcome(a.sub, a.chat) IN
        (o.call.update_total /\ o.call.ret = "scoreSpec") =>
            /\ Len(o.grades) > 0
            /\ o.call.scoreSpec.score = o.grades[1].score

\* C8 amended: a call that flagged the recompute runs compute_total_score,
\* which persists the sum of the stored scores in the single Grade row or
\* raises on a None score, and its result goes to a local only: the
\* specification's score stays the score computed for the submission.
C8_ScoreStaysQuestionScore ==
    \A a \in Arrivals :
        LET o == Outcome(a.sub, a.chat)
            scores == fetch_assignment_scores(o.qgrades) IN
        o.call.update_total =>
            /\ o.call.scoreSpec.score = ScoreOf(a)
            /\ o.call.ret \in {"scoreSpec", "TypeError"}
            /\ o.call.ret = "scoreSpec" =>
                    /\ o.call.upserts = 1
                    /\ Len(o.grades) = 1
                    /\ o.call.total = SumSeq(scores)
                    /\ o.grades[1].score = o.call.total
            /\ o.call.ret = "TypeError" =>
                    /\ SeqHasNone(scores)
                    /\ o.call.upserts = 0
                    /\ o.grades = grades

\* A call returned a score that is not the total it had just persisted.
C8_Witness ==
    /\ last.q \in Questions
    /\ last.update_total
    /\ last.ret = "scoreSpec"
    /\ last.upserts = 1
    /\ Len(grades) = 1
    /\ grades[1].score = last.total
    /\ last.scoreSpec.score # last.total

\* The two early exits of an assigned question.
SkipsByFirstAnswer(a) ==
    Assigned(a.sub.q) /\ Rule(a.sub.q) = "first_answer" /\ Logged(a)

SkipsByVote1(a) ==
    /\ Assigned(a.sub.q)
    /\ Rule(a.sub.q) = "all_answer"
    /\ ~Contains(Vote2, a.sub.act)

ComputeTotal(qg, gr) ==
    Run(policy, answers, qg, gr, [Idle EXCEPT !.pc = "fetch_scores"])

\* C10: compute_total_score returns the sum of the scores of the rows it
\* fetched and leaves a single Grade row holding that sum; run again on the
\* unchanged rows it returns the same sum and leaves the same Grade row.
C10_TotalIsSumIdempotent ==
    LET o == ComputeTotal(qgrades, grades)
        again == ComputeTotal(o.qgrades, o.grades) IN
    /\ o.call.ret = "scoreSpec"
    /\ o.call.total = SumSeq(fetch_assignment_scores(qgrades))
    /\ o.qgrades = qgrades
    /\ Len(o.grades) = 1
    /\ o.grades[1].score = o.call.total
    /\ again.call.ret = "scoreSpec"
    /\ again.call.total = o.call.total
    /\ again.grades = o.grades

\* C11: under peer_chat, when did_send_messages is false, score_one_answer
\* gives the score 0, so a vote2 submission under all_answer leaves a
\* QuestionGrade with score 0 and the total recomputation that follows ends
\* with a numeric sum in the Grade row.
C11_PeerChatNoMessagesScoresZero ==
    \A a \in Arrivals :
        (/\ Assigned(a.sub.q)
         /\ Rule(a.sub.q) = "all_answer"
         /\ Contains(Vote2, a.sub.act)
         /\ policy[a.sub.q].how_to_score = "peer_chat"
         /\ ~a.chat)
        => LET o == Outcome(a.sub, a.chat)
               id == fetch_question_grade(o.qgrades, a.sub.q) IN
           /\ ScoreOf(a) = 0
           /\ id # 0
           /\ o.qgrades[id].score = 0
           /\ o.call.ret = "scoreSpec"
           /\ o.call.upserts = 1
           /\ o.call.total = SumSeq(fetch_assignment_scores(o.qgrades))

\* ------------------------------------------------- the Answer Scorer alone
\* Every partial-credit fraction from 0 to 1, in tenths.
PercentRange == 0..Scale

\* score_one_answer(scoreSpec, submission) applied by caller p to a
\* submission for question q: the frame holds the submission and, in
\* scoreSpec.score and computed, the score returned.
ScoreOneAnswer(p) ==
    \E q \in Questions, correct \in BOOLEAN, percent \in PercentRange :
    \E chat \in ChatAnswers(q) :
        LET sub == [q |-> q, event |-> "mChoice", act |-> Vote2,
                    correct |-> correct, percent |-> percent]
            c == [Begin(sub, chat) EXCEPT
                      !.scoreSpec = is_assigned(policy, q)] IN
        /\ calls' = [calls EXCEPT ![p] = StepScore(qgrades, grades, c).call]
        /\ UNCHANGED <<policy, qgrades, grades, answers, last>>

NextScore == ScoreOneAnswer(1)

SpecScore == Init /\ [][NextScore]_vars

\* C12: under pct_correct score_one_answer returns max_score for a correct
\* submission whatever its fraction, and fraction * max_score for one that
\* is not correct (fraction 0.4 of max_score 10 gives 4); for a fraction
\* between 0 and 1 the result lies between 0 and max_score.
C12_PctCorrect ==
    \A p \in Procs :
        (/\ calls[p].pc # "idle"
         /\ calls[p].scoreSpec.how_to_score = "pct_correct")
        => LET c == calls[p]
               max == c.scoreSpec.max_score * Scale IN
           /\ c.correct => c.computed = max
           /\ ~c.correct => c.computed * Scale = c.percent * max
           /\ (~c.correct /\ c.percent = 4 /\ c.scoreSpec.max_score = 10)
                  => c.computed = 4 * Scale
           /\ c.computed >= 0
           /\ c.computed <= max
           /\ c.scoreSpec.score = c.computed

\* A submission that is not correct, with fraction 0.4, scored 4 of 10.
C12_Witness ==
    \E p \in Procs :
        /\ calls[p].pc # "idle"
        /\ calls[p].scoreSpec.how_to_score = "pct_correct"
        /\ ~calls[p].correct
        /\ calls[p].percent = 4
        /\ calls[p].scoreSpec.max_score = 10
        /\ calls[p].computed = 4 * Scale

\* ---------------------------------------------- the Total Aggregator alone
\* The totals an instructor enters by hand, in tenths of a point.
ManualTotals == {70}

\* compute_total_score(scoreSpec, user) called on its own.
ComputeTotalScore ==
    /\ NoCallInFlight
    /\ LET o == ComputeTotal(qgrades, grades) IN
          /\ qgrades' = o.qgrades
          /\ grades' = o.grades
          /\ last' = Result(o.call)
    /\ UNCHANGED <<policy, answers, calls>>

\* An instructor sets the total of a stored Grade by hand.
InstructorManualTotal ==
    /\ NoCallInFlight
    /\ Len(grades) > 0
    /\ ~grades[1].manual_total
    /\ \E s \in ManualTotals :
          grades' = [grades EXCEPT ![1] = [score |-> s, manual_total |-> TRUE]]
    /\ UNCHANGED <<policy, qgrades, answers, calls, last>>

NextTotal ==
    \/ GradeSubmission(OneEvent)
    \/ ComputeTotalScore
    \/ InstructorManualTotal

SpecTotal == Init /\ [][NextTotal]_vars

\* C13: compute_total_score called while no QuestionGrade is stored returns
\* 0 without raising and writes a Grade with score 0: a new row when none
\* exists, the existing row otherwise.
C13_NoRowsTotalZero ==
    qgrades = <<>> =>
        LET o == ComputeTotal(qgrades, grades) IN
        /\ o.call.ret = "scoreSpec"
        /\ o.call.total = 0
        /\ o.call.upserts = 1
        /\ grades = <<>> =>
               o.grades = <<[score |-> 0, manual_total |-> FALSE]>>
        /\ grades # <<>> => o.grades = [grades EXCEPT ![1].score = 0]

\* With no row stored, a call set an existing Grade to 0.
C13_Witness ==
    /\ qgrades = <<>>
    /\ last.q = 0
    /\ last.ret = "scoreSpec"
    /\ last.upserts = 1
    /\ last.total = 0
    /\ grades = <<[score |-> 0, manual_total |-> TRUE]>>

\* C14: compute_total_score does not look at manual_total: the score of an
\* existing Grade is replaced by the new sum whether manual_total is true
\* or false, and its manual_total stays as it was; a Grade built because
\* none existed has manual_total false. Without a sum (a None score
\* raises) the Grade table is untouched.
C14_ManualTotalIgnored ==
    LET o == ComputeTotal(qgrades, grades)
        scores == fetch_assignment_scores(qgrades) IN
    IF SeqHasNone(scores)
    THEN o.grades = grades /\ o.call.ret = "TypeError"
    ELSE /\ o.call.ret = "scoreSpec"
         /\ grades = <<>> =>
                o.grades = <<[score |-> SumSeq(scores),
                              manual_total |-> FALSE]>>
         /\ grades # <<>> =>
                o.grades = [grades EXCEPT ![1].score = SumSeq(scores)]

\* A total entered by hand was replaced by the sum of the stored scores.
C14_Witness ==
    /\ Len(qgrades) > 0
    /\ Len(grades) = 1
    /\ grades[1].manual_total
    /\ grades[1].score \notin ManualTotals
    /\ grades[1].score = SumSeq(fetch_assignment_scores(qgrades))
    /\ last.upserts = 1
    /\ last.total = grades[1].score

\* ------------------------------------------------------- overlapping calls
\* Two grade_submission coroutines of one user run at once: each persistence
\* operation is one step and the steps of the calls interleave freely.
ConcPercents == {0, 4}

ConcSubmissions ==
    [q : Questions, event : OneEvent, act : {Vote2}, correct : BOOLEAN,
     percent : ConcPercents]

InitConc ==
    /\ Init
    /\ policy[1].assigned
    /\ policy[1].which_to_grade \in {"last_answer", "best_answer", "all_answer"}
    /\ policy[1].how_to_score = "pct_correct"

\* An earlier call that ran alone on empty storage.
Seed ==
    /\ NoCallInFlight
    /\ qgrades = <<>>
    /\ grades = <<>>
    /\ \E sub \in ConcSubmissions :
          LET o == Outcome(sub, FALSE) IN
          /\ qgrades' = o.qgrades
          /\ grades' = o.grades
          /\ last' = Result(o.call)
    /\ UNCHANGED <<policy, answers, calls>>

\* Process p calls grade_submission.
Start(p) ==
    /\ calls[p].pc = "idle"
    /\ \E sub \in ConcSubmissions :
          calls' = [calls EXCEPT ![p] = Begin(sub, FALSE)]
    /\ UNCHANGED <<policy, qgrades, grades, answers, last>>

\* The call of process p runs up to its next await.
StepCall(p) ==
    /\ calls[p].pc # "idle"
    /\ ~Finished(calls[p])
    /\ LET o == Step(policy, answers, qgrades, grades, calls[p]) IN
          /\ qgrades' = o.qgrades
          /\ grades' = o.grades
          /\ calls' = [calls EXCEPT ![p] = o.call]
    /\ UNCHANGED <<policy, answers, last>>

NextConc ==
    \/ Seed
    \/ \E p \in Procs : Start(p)
    \/ \E p \in Procs : StepCall(p)

SpecConc == InitConc /\ [][NextConc]_vars

\* C15: the create that follows a fetch_question_grade which saw no row is
\* not guarded by a second look: it adds a row for the key even when a row
\* has been stored for the key in the meantime, so two calls for one key
\* that both saw no row leave two rows.
C15_BothCreate ==
    /\ \A p \in Procs :
          calls[p].pc = "create" =>
              LET o == StepCreate(qgrades, grades, calls[p]) IN
              Cardinality(RowsOf(o.qgrades, calls[p].q))
                  = Cardinality(RowsOf(qgrades, calls[p].q)) + 1
    /\ \A p, r \in Procs :
          (/\ p # r
           /\ Finished(calls[p]) /\ Finished(calls[r])
           /\ calls[p].q = calls[r].q
           /\ calls[p].answer = 0 /\ calls[r].answer = 0
           /\ calls[p].creates = 1 /\ calls[r].creates = 1)
          => Cardinality(RowsOf(qgrades, calls[p].q)) >= 2

\* Started on empty storage, both calls for question 1 saw no row and both
\* created one: two rows for the key.
C15_Witness ==
    /\ last.q = 0
    /\ \A p \in Procs :
          /\ calls[p].pc = "done"
          /\ calls[p].q = 1
          /\ calls[p].answer = 0
          /\ calls[p].creates = 1
    /\ Cardinality(RowsOf(qgrades, 1)) = 2

\* C16: the update that follows best_answer's comparison writes the score
\* the call computed whatever is stored by then, so a call that compared
\* with an older stored score can replace a higher score by a lower one.
C16_UpdateWritesOwnScore ==
    \A p \in Procs :
        calls[p].pc = "update" =>
            LET o == StepUpdate(qgrades, grades, calls[p]) IN
            /\ o.qgrades[calls[p].answer].score = calls[p].scoreSpec.score
            /\ Len(o.qgrades) = Len(qgrades)

\* best_answer, stored score s = 0, comment autograded: two calls computed
\* a = 10 and b = 4 points, both read s and both wrote; b was written last
\* and is what is stored.
C16_Witness ==
    /\ policy[1].which_to_grade = "best_answer"
    /\ last.q = 1 /\ last.creates = 1 /\ last.scoreSpec.score = 0
    /\ \A p \in Procs :
          /\ calls[p].pc = "done"
          /\ calls[p].q = 1
          /\ calls[p].answer = 1
          /\ calls[p].updates = 1
    /\ calls[1].computed = 10 * Scale
    /\ calls[2].computed = 4 * Scale
    /\ qgrades[1].comment = Autograded
    /\ qgrades[1].score = 4 * Scale

\* C17: upsert_grade writes the total and the Grade the call fetched
\* earlier: the total is not recomputed and a call that found no Grade adds
\* one even when another call has added one since.
C17_UpsertWritesStaleTotal ==
    \A p \in Procs :
        calls[p].pc = "upsert" =>
            LET c == calls[p]
                o == StepUpsert(qgrades, grades, c) IN
            IF c.grade_id = 0
            THEN o.grades = Append(grades, [score |-> c.total,
                                            manual_total |-> FALSE])
            ELSE /\ Len(o.grades) = Len(grades)
                 /\ o.grades[c.grade_id].score = c.total

\* Two calls for different questions have finished, both built a new Grade,
\* and the Grade that fetch_grade returns is not the sum of the stored
\* scores.
C17_Witness ==
    /\ \A p \in Procs :
          /\ calls[p].pc = "done"
          /\ calls[p].grade_id = 0
          /\ calls[p].upserts = 1
    /\ calls[1].q # calls[2].q
    /\ Len(grades) = 2
    /\ grades[fetch_grade(grades)].score
           # SumSeq(fetch_assignment_scores(qgrades))

\* C18: in sequential use, once a QuestionGrade is stored a Grade exists
\* and its score is the sum of the stored QuestionGrade scores.
C18_GradeIsSumOfRows ==
    Len(qgrades) > 0 =>
        /\ Len(grades) = 1
        /\ ~SeqHasNone(fetch_assignment_scores(qgrades))
        /\ grades[1].score = SumSeq(fetch_assignment_scores(qgrades))

\* ------------------------------------------------- submissions of any event
\* The ingestion pipeline as a whole: it grades the submission, of either
\* event tag, and records it in the answer log before it takes the next.
GradeAndLog(events) ==
    /\ NoCallInFlight
    /\ \E sub \in Submissions(events) : \E chat \in ChatAnswers(sub.q) :
          LET o == Outcome(sub, chat) IN
          /\ Len(o.qgrades) <= MaxRows
          /\ qgrades' = o.qgrades
          /\ grades' = o.grades
          /\ last' = Result(o.call)
          /\ answers' = answers \cup {<<sub.q, sub.event>>}
    /\ UNCHANGED <<policy, calls>>

InitEvents ==
    /\ Init
    /\ policy[1].how_to_score = "pct_correct"

NextEvents ==
    \/ GradeAndLog(Events)
    \/ \E id \in 1..Len(qgrades) : InstructorComment(id)

SpecEvents == InitEvents /\ [][NextEvents]_vars

\* C19: in sequential use at most one QuestionGrade row is stored for a
\* question, whatever the event tags of the submissions.
C19_OneRowPerKey ==
    \A q \in Questions : Cardinality(RowsOf(qgrades, q)) <= 1

\* The QuestionGrade row a finished call created, updated or compared with.
RowOfCall(o) ==
    IF o.call.creates = 1 THEN Len(o.qgrades) ELSE o.call.answer

====
